---------------------------- MODULE Spec2Model ----------------------------
(***************************************************************************)
(* State-machine model of the extraction pipeline of src/main.py           *)
(* (class FanyaCrawler): the assignment paginator get_assignments, the     *)
(* title normaliser _normalize_title, the question extractor               *)
(* _parse_questions / _parse_single_question and the resource navigator    *)
(* get_resource_list with its nested get_folder_detail / parse_resourse,   *)
(* the PDF assembler DocumentExporter.exprot_pdf_from_url and the          *)
(* assignment mode of main with solve_assignment_questions_with_ai.        *)
(*                                                                         *)
(* Each operation has its own specification (SpecPag, SpecTitle, SpecQ,    *)
(* SpecNav, SpecPdf, SpecMain); the variables of the other operations stay *)
(* at their initial values there.                                          *)
(***************************************************************************)
EXTENDS Integers, Sequences, FiniteSets, TLC

VARIABLES
    \* ---- get_assignments (src/main.py 507-600)
    ga_pc,          \* "enter" | "loop" | "returned" | "raised"
    page_num,       \* local page_num
    total_page,     \* local total_page: a Python value, int or str
    assignments,    \* local assignments: sequence of work ids
    requested,      \* pageNum of every work_list request issued, in order
    last_ok,        \* whether the last work_list request succeeded
    last_li,        \* local li_tags: the <li> elements of the last page parsed
    page1_script,   \* how page 1 carried its first <script>, "unread" before
    ga_ret,         \* what the caller of get_assignments receives
    \* ---- _normalize_title (src/main.py 788-797)
    nt_pc,          \* "input" | "once" | "twice"
    nt_title,       \* the argument title, a sequence of characters
    nt_once,        \* _normalize_title(title)
    nt_twice,       \* _normalize_title(_normalize_title(title))
    \* ---- _parse_questions (src/main.py 804-940)
    q_pc,           \* "input" | "done"
    q_block,        \* the argument question_block
    q_ret,          \* what the caller of _parse_questions receives
    q_log,          \* the events _parse_questions and its callees logged
    \* ---- _normalize_answers (src/main.py 799-802)
    na_pc,          \* "input" | "done"
    na_text,        \* the argument answers_text, a sequence of characters
    na_ret,         \* what _normalize_answers returns
    \* ---- get_resource_list (src/main.py 602-786)
    nav_pc,         \* "enter" | "fetch" | "prompt" | "resolve" | "returned" | "raised"
    scope,          \* dataId of stu_datalist_payload, 0 for the course root
    root_dir,       \* local root_dir: the listing of the current scope
    last_listing,   \* the last resources_list request: its dataId and outcome
    user_choice,    \* local user_choice: the characters the operator typed
    current_todo,   \* local current_todo: a Python int or list of int
    pos,            \* position of the resolution in current_todo
    ret,            \* local ret: dataname -> what parse_resourse returned
    resolved,       \* dataid of every entry the selection was resolved to
    res_calls,      \* the read-count / preview calls issued, in order
    nav_ret,        \* what the caller of get_resource_list receives
    \* ---- DocumentExporter.exprot_pdf_from_url (src/main.py 1186-1261)
    pdf_pc,         \* "start" | "pool" | "assemble" | "done"
    image_urls,     \* the argument image_urls: its page keys in insertion order
    max_workers,    \* the argument max_workers
    sorted_urls,    \* local sorted_urls: each URL written by the page it shows
    task,           \* idx -> "queued" | "running" | "ok" | "failed" of download_image
    completed,      \* idx of every download that has finished, in completion order
    next_result,    \* idx of the result the loop of line 1225 waits for
    image_paths,    \* local image_paths: each path written by its idx
    next_path,      \* position of the loop of line 1236 in image_paths
    pdf_doc,        \* the pages of the FPDF object, in order
    pdf_log,        \* the error events logged
    pdf_out,        \* the output file and the closing success message
    \* ---- main, operation 0 (src/main.py 1410-1457)
    m_pc,           \* "list" | "fetch" | "solve" | "export" | "done" | "raised"
    ai_enabled,     \* ai_config.get('enabled', False)
    ai_solver,      \* whether crawler.ai_solver is set
    m_assignments,  \* local assignments: the questions of each Assignment
    m_i,            \* position of the running for loop in assignments
    m_events,       \* the question fetches and solve_question calls, in order
    m_exported,     \* the assignments as handed to the exporter
    \* ---- solve_assignment_questions_with_ai (src/main.py 981-1001)
    sv_pc,          \* "idle", "ready" or "done"
    sv_solver,      \* self.ai_solver is set
    sv_questions,   \* assignment.questions
    sv_ret          \* what the call returned

ga_vars == <<ga_pc, page_num, total_page, assignments, requested, last_ok, last_li,
            page1_script,
            ga_ret>>

nt_vars == <<nt_pc, nt_title, nt_once, nt_twice>>

q_vars == <<q_pc, q_block, q_ret, q_log>>

na_vars == <<na_pc, na_text, na_ret>>

nav_vars == <<nav_pc, scope, root_dir, last_listing, user_choice, current_todo, pos, ret, resolved,
             res_calls, nav_ret>>

pdf_vars == <<pdf_pc, image_urls, max_workers, sorted_urls, task, completed, next_result,
             image_paths, next_path, pdf_doc, pdf_log, pdf_out>>

main_vars == <<m_pc, ai_enabled, ai_solver, m_assignments, m_i, m_events, m_exported>>
solve_vars == <<sv_pc, sv_solver, sv_questions, sv_ret>>

vars == <<ga_vars, nt_vars, q_vars, na_vars, nav_vars, pdf_vars, main_vars, solve_vars>>

\* What an operation leaves alone: the variables of the other operations.
not_ga == <<nt_vars, q_vars, na_vars, nav_vars, pdf_vars, main_vars, solve_vars>>
not_nt == <<ga_vars, q_vars, na_vars, nav_vars, pdf_vars, main_vars, solve_vars>>
not_q == <<ga_vars, nt_vars, na_vars, nav_vars, pdf_vars, main_vars, solve_vars>>
not_na == <<ga_vars, nt_vars, q_vars, nav_vars, pdf_vars, main_vars, solve_vars>>
not_nav == <<ga_vars, nt_vars, q_vars, na_vars, pdf_vars, main_vars, solve_vars>>
not_pdf == <<ga_vars, nt_vars, q_vars, na_vars, nav_vars, main_vars, solve_vars>>
not_main == <<ga_vars, nt_vars, q_vars, na_vars, nav_vars, pdf_vars, solve_vars>>
not_solve == <<ga_vars, nt_vars, na_vars, nav_vars, pdf_vars, main_vars>>

\* ------------------------------------------------------------------ bounds
MaxPage == 2        \* pages the model lets the paginator request
MaxItems == 2       \* <li> elements on one listing page
MaxDeclared == 2    \* largest page count a page-1 script declares
MaxTitleLen == 3    \* characters of a title given to _normalize_title
MaxDetails == 2     \* detail elements of one question block
MaxAnswerLen == 4   \* characters of an option text given to _normalize_answers
MaxEntries == 3     \* entries of one resource listing
MaxChoiceLen == 3   \* characters of a selection the operator types
MaxImages == 3      \* pages of one page -> URL map, and its largest page key
MaxAssignments == 2 \* assignments get_assignments hands to main
MaxQuestions == 2   \* questions of one assignment

\* ------------------------------------------------------------- utilities
SeqsUpTo(S, n) == UNION {[1..k -> S] : k \in 0..n}

Max(a, b) == IF a >= b THEN a ELSE b

\* =================================================================
\* get_assignments
\* =================================================================

\* Python values held by total_page: the int 1 of line 521, or the str that
\* total_pagenum.group(1) returns (line 542), written by the number it spells.
PyInt(n) == [kind |-> "int", val |-> n]
PyStr(n) == [kind |-> "str", val |-> n]

\* Python's == between total_page and an int: a str never equals an int.
PyEqInt(v, n) == v.kind = "int" /\ v.val = n

WorkIds == {"w1", "w2"}

\* One <li> of a listing page: whether it has a data attribute, and the
\* workId of that attribute's query string ("" when it has none).
LiTags == {[data |-> FALSE, workId |-> ""], [data |-> TRUE, workId |-> ""]}
            \cup {[data |-> TRUE, workId |-> w] : w \in WorkIds}

\* The first <script> of <body> as page 1 carries it.
Scripts == {[kind |-> k, total |-> 0] : k \in {"nobody", "noscript", "nostring", "nomatch"}}
            \cup {[kind |-> "match", total |-> n] : n \in 0..MaxDeclared}

\* The responses of the work_list endpoint to the request of page num: a
\* failed request, or a page with its script and its <li> elements. The
\* script is read on page 1 only (line 535), so the later pages carry one.
Responses(num) ==
    [ok : {FALSE}, script : {[kind |-> "nomatch", total |-> 0]}, li : {<<>>}]
    \cup [ok : {TRUE},
          script : IF num = 1 THEN Scripts ELSE {[kind |-> "nomatch", total |-> 0]},
          li : SeqsUpTo(LiTags, MaxItems)]

\* Lines 537-539: soup.find("body").find("script") raises without a <body>,
\* re.search(pattern, None) raises when the script has no inline string.
ScriptRaises(script) == script.kind \in {"nobody", "nostring"}

\* Lines 536-542: total_page after scanning the script of page 1.
ScanTotalPage(script, old) ==
    IF script.kind = "match" THEN PyStr(script.total) ELSE old

\* A parser that takes every <li> with a data attribute for an assignment.
ParseLiWithoutWorkId(li) ==
    IF ~li.data THEN <<>>
    ELSE <<li.workId>>

\* Lines 552-580: the Assignment (by work id) one <li> yields, if any.
ParseLi(li) ==
    IF ~li.data THEN <<>>
    ELSE IF li.workId = "" THEN <<>>
    ELSE <<li.workId>>

\* Lines 549-584: page_assignments of one page.
RECURSIVE PageAssignments(_)
PageAssignments(li_tags) ==
    IF li_tags = <<>> THEN <<>>
    ELSE ParseLi(Head(li_tags)) \o PageAssignments(Tail(li_tags))

\* A paginator that ignores an empty page and goes on to the next one.
NoItemsBreakNever(li_tags) == FALSE

\* Lines 546-547: the page ends the loop when it has no <li>.
NoItemsBreak(li_tags) == li_tags = <<>>

\* Lines 589-590: the loop ends when total_page == page_num.
LastPageBreak(total, num) == PyEqInt(total, num)

\* Lines 592-593: page_num after the page (total_page != 1 is Python's !=).
NextPageNum(total, num) == IF ~PyEqInt(total, 1) THEN num + 1 ELSE num

\* Lines 598-600: what the except clause hands the caller.
NoResult == [kind |-> "none", val |-> <<>>]
\* An except clause that logs and returns what was collected so far.
OnGetAssignmentsErrorPartial(collected) == [kind |-> "value", val |-> collected]

OnGetAssignmentsError(collected) == [kind |-> "error", val |-> <<>>]

\* Lines 595-596.
ReturnAssignments(collected) == [kind |-> "value", val |-> collected]

GaInit ==
    /\ ga_pc = "enter"
    /\ page_num = 1
    /\ total_page = PyInt(1)
    /\ assignments = <<>>
    /\ requested = <<>>
    /\ last_ok = TRUE
    /\ last_li = <<>>
    /\ page1_script = "unread"
    /\ ga_ret = NoResult

\* Lines 509-521: _get_workEnc(course) inside the try, then the locals.
GetAssignmentsEnter ==
    /\ ga_pc = "enter"
    /\ \E enc_ok \in BOOLEAN :
        /\ IF enc_ok
           THEN /\ ga_pc' = "loop"
                /\ ga_ret' = ga_ret
           ELSE /\ ga_pc' = "raised"
                /\ ga_ret' = OnGetAssignmentsError(assignments)
        /\ UNCHANGED <<page_num, total_page, assignments, requested, last_ok, last_li,
                       page1_script>>
        /\ UNCHANGED not_ga

\* Lines 523-593: one iteration of the while loop; resp is the response.
GetAssignmentsPage ==
    /\ ga_pc = "loop"
    /\ page_num <= MaxPage
    /\ \E resp \in Responses(page_num) :
        /\ requested' = Append(requested, page_num)
        /\ last_ok' = resp.ok
        /\ page1_script' = IF page_num = 1 /\ resp.ok THEN resp.script.kind
                           ELSE page1_script
        /\ UNCHANGED not_ga
        /\ IF ~resp.ok \/ (page_num = 1 /\ ScriptRaises(resp.script))
           THEN \* raise_for_status() or the script scan raises: lines 598-600
                /\ ga_pc' = "raised"
                /\ ga_ret' = OnGetAssignmentsError(assignments)
                /\ UNCHANGED <<page_num, total_page, assignments, last_li>>
           ELSE LET total == IF page_num = 1
                             THEN ScanTotalPage(resp.script, total_page)
                             ELSE total_page
                    collected == assignments \o PageAssignments(resp.li)
                IN  /\ total_page' = total
                    /\ last_li' = resp.li
                    /\ IF NoItemsBreak(resp.li)
                       THEN /\ ga_pc' = "returned"
                            /\ ga_ret' = ReturnAssignments(assignments)
                            /\ UNCHANGED <<page_num, assignments>>
                       ELSE /\ assignments' = collected
                            /\ IF LastPageBreak(total, page_num)
                               THEN /\ ga_pc' = "returned"
                                    /\ ga_ret' = ReturnAssignments(collected)
                                    /\ page_num' = page_num
                               ELSE /\ ga_pc' = "loop"
                                    /\ ga_ret' = ga_ret
                                    /\ page_num' = NextPageNum(total, page_num)

\* =================================================================
\* _normalize_title
\* =================================================================

\* Characters of a title: an ordinary letter, the ASCII space and newline,
\* ASCII and full-width parentheses, the four zero-width / directional
\* characters of lines 793-796 and the no-break space of line 797.
TitleChars == {"a", " ", "(", ")", "U+FF08", "U+FF09",
               "U+200C", "U+200D", "U+200E", "U+200F", "U+00A0"}

\* str.isspace(): what str.strip() removes at both ends. The no-break space
\* is whitespace to Python; the zero-width and directional characters
\* (category Cf) are not.
IsSpace(c) == c \in {" ", "\n", "U+00A0"}

RECURSIVE LStrip(_)
LStrip(s) ==
    IF s = <<>> THEN <<>>
    ELSE IF IsSpace(Head(s)) THEN LStrip(Tail(s))
    ELSE s

RECURSIVE RStrip(_)
RStrip(s) ==
    IF s = <<>> THEN <<>>
    ELSE IF IsSpace(s[Len(s)]) THEN RStrip(SubSeq(s, 1, Len(s) - 1))
    ELSE s

\* str.strip()
Strip(s) == RStrip(LStrip(s))

\* str.replace(old, new) for a one-character old; new is a sequence.
RECURSIVE Replace(_, _, _)
Replace(s, old, new) ==
    IF s = <<>> THEN <<>>
    ELSE (IF Head(s) = old THEN new ELSE <<Head(s)>>) \o Replace(Tail(s), old, new)

\* Lines 790-797.
NormalizeTitle(title) ==
    Replace(Replace(Replace(Replace(Replace(Replace(Replace(
        Strip(title),
        "U+FF08", <<"(">>),
        "U+FF09", <<")">>),
        "U+200C", <<>>),
        "U+200E", <<>>),
        "U+200D", <<>>),
        "U+200F", <<>>),
        "U+00A0", <<>>)

NtIdle ==
    /\ nt_pc = "idle"
    /\ nt_title = <<>>
    /\ nt_once = <<>>
    /\ nt_twice = <<>>

NtInit ==
    /\ nt_pc = "input"
    /\ nt_title \in SeqsUpTo(TitleChars, MaxTitleLen)
    /\ nt_once = <<>>
    /\ nt_twice = <<>>

\* _normalize_title applied to the title.
NormalizeOnce ==
    /\ nt_pc = "input"
    /\ nt_pc' = "once"
    /\ nt_once' = NormalizeTitle(nt_title)
    /\ UNCHANGED <<nt_title, nt_twice>>
    /\ UNCHANGED not_nt

\* _normalize_title applied to its own result.
NormalizeAgain ==
    /\ nt_pc = "once"
    /\ nt_pc' = "twice"
    /\ nt_twice' = NormalizeTitle(nt_once)
    /\ UNCHANGED <<nt_title, nt_once>>
    /\ UNCHANGED not_nt

\* =================================================================
\* _normalize_answers, _parse_questions, _parse_single_question
\* =================================================================

\* str.split(sep) for a one-character sep: the pieces between the
\* separators (at least one piece, empty pieces kept).
RECURSIVE SplitOn(_, _)
SplitOn(s, sep) ==
    IF \A i \in DOMAIN s : s[i] # sep THEN <<s>>
    ELSE LET k == CHOOSE i \in DOMAIN s :
                      s[i] = sep /\ \A j \in 1..(i - 1) : s[j] # sep
         IN  <<SubSeq(s, 1, k - 1)>> \o SplitOn(SubSeq(s, k + 1, Len(s)), sep)

\* Line 801: answers_text.split("\n")
SplitLines(s) == SplitOn(s, "\n")

\* Line 802: the list comprehension over the split lines.
RECURSIVE KeepNonBlank(_)
KeepNonBlank(lines) ==
    IF lines = <<>> THEN <<>>
    ELSE (IF Strip(Head(lines)) # <<>> THEN <<Strip(Head(lines)) \o <<"\n">>>> ELSE <<>>)
         \o KeepNonBlank(Tail(lines))

\* A normaliser that keeps the blank lines.
NormalizeAnswersKeepsBlank(answers_text) ==
    LET lines == SplitLines(answers_text)
    IN  [i \in DOMAIN lines |-> Strip(lines[i]) \o <<"\n">>]

\* Lines 799-802.
NormalizeAnswers(answers_text) == KeepNonBlank(SplitLines(answers_text))

\* Characters of an option text: a letter, the ASCII space, the newline and
\* the no-break space.
AnswerChars == {"a", " ", "\n", "U+00A0"}

NaIdle ==
    /\ na_pc = "idle"
    /\ na_text = <<>>
    /\ na_ret = <<>>

NaInit ==
    /\ na_pc = "input"
    /\ na_text \in SeqsUpTo(AnswerChars, MaxAnswerLen)
    /\ na_ret = <<>>

\* _normalize_answers(answers_text)
NormalizeAnswersCall ==
    /\ na_pc = "input"
    /\ na_pc' = "done"
    /\ na_ret' = NormalizeAnswers(na_text)
    /\ UNCHANGED na_text
    /\ UNCHANGED not_na

\* Lines 278-287: ANSWER_TYPES in insertion order, which is the order the
\* loop of line 815 tries the names in. The names stand for
\* 单选题, 多选题, 填空题, 判断题, 思维导图, 名词解释, 简答题, 其它.
AnswerTypeNames == <<"single_choice", "multi_choice", "fill_blank", "true_false",
                     "mind_map", "term_definition", "short_answer", "other">>

ANSWER_TYPES ==
    [n \in {AnswerTypeNames[i] : i \in DOMAIN AnswerTypeNames} |->
        CASE n = "single_choice" -> 1
          [] n = "multi_choice" -> 2
          [] n = "fill_blank" -> 3
          [] n = "true_false" -> 4
          [] n = "mind_map" -> 5
          [] n = "term_definition" -> 6
          [] n = "short_answer" -> 7
          [] n = "other" -> 255]

\* A classifier that files a heading it does not recognise as short-answer.
ClassifyHeadingDefaulting(names) ==
    LET hits == {i \in DOMAIN AnswerTypeNames : AnswerTypeNames[i] \in names}
    IN  IF hits = {} THEN ANSWER_TYPES["short_answer"]
        ELSE ANSWER_TYPES[AnswerTypeNames[CHOOSE i \in hits : \A j \in hits : i <= j]]

\* Lines 814-818: answer_type of a heading that contains the type names
\* `names` as substrings; the first name of ANSWER_TYPES it contains wins,
\* 0 when it contains none.
ClassifyHeading(names) ==
    LET hits == {i \in DOMAIN AnswerTypeNames : AnswerTypeNames[i] \in names}
    IN  IF hits = {} THEN 0
        ELSE ANSWER_TYPES[AnswerTypeNames[CHOOSE i \in hits : \A j \in hits : i <= j]]

\* The text of the option list of a detail element that has one.
OptionsText == <<"a", "\n", " ", "\n", "(", " ">>

\* Values of correct_answer (a str, or a list of str for fill-blank) and of
\* question_answers (None or a list).
StrAnswer(text) == [kind |-> "str", text |-> text, items |-> <<>>]
ListAnswer(items) == [kind |-> "list", text |-> "", items |-> items]
NoOptions == [kind |-> "none", items |-> <<>>]
OptionList(items) == [kind |-> "list", items |-> items]

\* Lines 52-60: a Question; the two AI fields take their defaults.
Question(type, title, correct, options) ==
    [answer_type |-> type, question_title |-> title, correct_answer |-> correct,
     question_answers |-> options,
     ai_generated_answer |-> "None", ai_answer_confirmed |-> FALSE]

\* A detail element:
\*   h3      it has the h3 "mark_name colorDeep" title element
\*   title   the text of that element
\*   raises  reading it raises inside _parse_single_question
\*   ul      it has the option list "mark_letter colorDeep qtDetail"
\*   dl      it has the blanks list "mark_fill colorGreen" (two <dd>)
\*   answer  its div "mark_answer": "nodiv" none, "empty" without answers,
\*           "right" with the published answer, "stu" with the respondent's
\*           answer only, "both" with both
DetailShapes ==
    [h3 : BOOLEAN, title : {<<" ", "a">>, <<"U+FF08">>}, raises : BOOLEAN,
     ul : BOOLEAN, dl : BOOLEAN, answer : {"nodiv", "empty", "right", "stu", "both"}]

\* The detail elements the model draws from: an element without a title, one
\* that raises (nothing else of either is read), and titled elements shaped
\* as the platform renders each kind of question.
Details ==
    {d \in DetailShapes :
        \/ ~d.h3 /\ ~d.raises /\ d.title = <<"U+FF08">> /\ ~d.ul /\ ~d.dl /\ d.answer = "nodiv"
        \/ d.h3 /\ d.raises /\ d.title = <<"U+FF08">> /\ ~d.ul /\ ~d.dl /\ d.answer = "nodiv"
        \/ d.h3 /\ ~d.raises /\
            \/ d.ul /\ ~d.dl /\ d.answer \in {"right", "nodiv"}
            \/ ~d.ul /\ d.dl /\ d.answer = "empty"
            \/ ~d.ul /\ ~d.dl /\ d.answer \in {"right", "stu", "both", "empty"}}

\* The headings the model draws from: no h2 "type_tit", a heading that
\* contains no type name, one per type name, and two that contain two names.
Headings ==
    {[h2 |-> FALSE, names |-> {}], [h2 |-> TRUE, names |-> {}]}
    \cup {[h2 |-> TRUE, names |-> {AnswerTypeNames[i]}] : i \in DOMAIN AnswerTypeNames}
    \cup {[h2 |-> TRUE, names |-> {"multi_choice", "single_choice"}],
          [h2 |-> TRUE, names |-> {"other", "true_false"}]}

Blocks == [heading : Headings, details : SeqsUpTo(Details, MaxDetails)]

\* The texts get_text(strip=True) returns for the published answer span and
\* for the respondent's answer element.
RightText == "right answer"
StuText == "student answer"

\* Lines 864-868 and 896-900: the published answer, "" without one.
PublishedAnswer(detail) ==
    IF detail.answer \in {"right", "both"} THEN RightText ELSE ""

\* Lines 910-929: the published answer, else the respondent's, else "".
PublishedOrOwnAnswer(detail) ==
    IF detail.answer \in {"right", "both"} THEN RightText
    ELSE IF detail.answer = "stu" THEN StuText
    ELSE ""

\* Lines 849-935: the body of the try of _parse_single_question. raised
\* tells that it raised; q holds the Question it returns (none for None).
SingleQuestionBody(detail, answer_type) ==
    IF ~detail.h3 THEN [raised |-> FALSE, q |-> <<>>]
    ELSE IF detail.raises THEN [raised |-> TRUE, q |-> <<>>]
    ELSE LET question_title == NormalizeTitle(detail.title)
         IN  IF answer_type \in {ANSWER_TYPES["single_choice"], ANSWER_TYPES["multi_choice"]}
             THEN [raised |-> FALSE,
                   q |-> <<Question(answer_type, question_title,
                                    StrAnswer(PublishedAnswer(detail)),
                                    OptionList(IF detail.ul
                                               THEN NormalizeAnswers(OptionsText)
                                               ELSE <<>>))>>]
             ELSE IF answer_type = ANSWER_TYPES["fill_blank"]
             THEN [raised |-> FALSE,
                   q |-> <<Question(answer_type, question_title,
                                    ListAnswer(IF detail.dl THEN <<"b1", "b2">> ELSE <<>>),
                                    NoOptions)>>]
             ELSE IF answer_type = ANSWER_TYPES["true_false"]
             THEN [raised |-> FALSE,
                   q |-> <<Question(answer_type, question_title,
                                    StrAnswer(PublishedAnswer(detail)), NoOptions)>>]
             ELSE IF answer_type \in {ANSWER_TYPES["term_definition"],
                                      ANSWER_TYPES["short_answer"]}
             THEN [raised |-> FALSE,
                   q |-> <<Question(answer_type, question_title,
                                    StrAnswer(PublishedOrOwnAnswer(detail)), NoOptions)>>]
             ELSE [raised |-> FALSE, q |-> <<>>]

\* Lines 846-940: the except clause of line 937 turns a raise into None.
ParseSingleQuestion(detail, answer_type) ==
    LET r == SingleQuestionBody(detail, answer_type)
    IN  IF r.raised THEN [raised |-> FALSE, q |-> <<>>] ELSE r

\* A loop that gives up at the first detail element that yields no Question.
RECURSIVE DetailLoopStopsAtFailure(_, _)
DetailLoopStopsAtFailure(details, answer_type) ==
    IF details = <<>> THEN <<>>
    ELSE LET r == ParseSingleQuestion(Head(details), answer_type)
         IN  IF r.raised \/ r.q = <<>> THEN <<>>
             ELSE r.q \o DetailLoopStopsAtFailure(Tail(details), answer_type)

\* Lines 829-840: the loop over the detail elements; a raise (line 836) or a
\* None (line 834) adds nothing and the loop goes on.
RECURSIVE DetailLoop(_, _)
DetailLoop(details, answer_type) ==
    IF details = <<>> THEN <<>>
    ELSE LET r == ParseSingleQuestion(Head(details), answer_type)
         IN  (IF r.raised THEN <<>> ELSE r.q)
             \o DetailLoop(Tail(details), answer_type)

\* A log event of the extractor; detail is the position of the detail
\* element it is about, 0 for the block.
QLog(level, event, detail) == [level |-> level, event |-> event, detail |-> detail]

\* Line 938: the one log of _parse_single_question, on a raise.
SingleQuestionLog(detail, answer_type, k) ==
    IF SingleQuestionBody(detail, answer_type).raised
    THEN {QLog("warning", "single_question_failed", k)}
    ELSE {}

\* Lines 806-844: what _parse_questions and its callees log for a block.
ParseQuestionsLog(block) ==
    IF ~block.heading.h2 THEN {}
    ELSE LET answer_type == ClassifyHeading(block.heading.names)
         IN  IF answer_type = 0 THEN {QLog("warning", "unknown_type", 0)}
             ELSE {QLog("info", "parse_type", 0)}
                  \cup UNION {SingleQuestionLog(block.details[k], answer_type, k) :
                                k \in DOMAIN block.details}

\* Lines 804-844.
ParseQuestions(block) ==
    IF ~block.heading.h2 THEN [kind |-> "value", val |-> <<>>]
    ELSE LET answer_type == ClassifyHeading(block.heading.names)
         IN  IF answer_type = 0 THEN [kind |-> "value", val |-> <<>>]
             ELSE [kind |-> "value", val |-> DetailLoop(block.details, answer_type)]

QIdle ==
    /\ q_pc = "idle"
    /\ q_block = [heading |-> [h2 |-> FALSE, names |-> {}], details |-> <<>>]
    /\ q_ret = NoResult
    /\ q_log = {}

QInit ==
    /\ q_pc = "input"
    /\ q_block \in Blocks
    /\ q_ret = NoResult
    /\ q_log = {}

\* _parse_questions(question_block)
ParseQuestionsCall ==
    /\ q_pc = "input"
    /\ q_pc' = "done"
    /\ q_ret' = ParseQuestions(q_block)
    /\ q_log' = ParseQuestionsLog(q_block)
    /\ UNCHANGED q_block
    /\ UNCHANGED not_q

\* =================================================================
\* get_resource_list, get_folder_detail, parse_resourse
\* =================================================================

\* A set of supported types that holds the archive type too.
SupportedFileTypesWithZip == {"ppt", "pptx", "pdf", "zip"}

\* Lines 301-305.
SUPPORTED_FILE_TYPES == {"ppt", "pptx", "pdf"}

\* The type attribute of the listing entries the model draws from: a folder,
\* a supported file and an unsupported file.
DataTypes == {"afolder", "pdf", "zip"}

\* Lines 619-628: the Resource list built from the <ul class="dataBody_td">
\* elements; the i-th element of a listing has dataname i and id i.
MkRootDir(types) ==
    [i \in DOMAIN types |-> [dataname |-> i, datatype |-> types[i], dataid |-> i]]

\* A resources_list request that always asks for the course root.
ListingRequestRoot(payload_scope) == 0

\* Lines 609-611: the request of get_folder_detail is made with the
\* stu_datalist_payload of the enclosing call as it stands, not with params.
ListingRequest(payload_scope) == payload_scope

NoListing == [dataId |-> 0, ok |-> TRUE, made |-> FALSE]
Listing(id, ok) == [dataId |-> id, ok |-> ok, made |-> TRUE]

\* A response of the resources_list endpoint: a failed request, or the types
\* of the entries of its dataBody.
ListingResponses ==
    [ok : {FALSE}, types : {<<>>}] \cup [ok : {TRUE}, types : SeqsUpTo(DataTypes, MaxEntries)]

\* Lines 607-632: get_folder_detail; the except of line 630 turns a failed
\* request into an empty list.
GetFolderDetail(resp) == IF resp.ok THEN MkRootDir(resp.types) ELSE <<>>

\* The characters of a selection, and the selections the operator types:
\* every string up to MaxChoiceLen and the three-element list "1,3,5".
ChoiceChars == {"0", "1", "2", "3", "-", ","}
Choices == SeqsUpTo(ChoiceChars, MaxChoiceLen) \cup {<<"1", ",", "3", ",", "5">>}

Digits == {"0", "1", "2", "3", "4", "5", "6", "7", "8", "9"}
DigitVal(c) ==
    CASE c = "0" -> 0 [] c = "1" -> 1 [] c = "2" -> 2 [] c = "3" -> 3 [] c = "4" -> 4
      [] c = "5" -> 5 [] c = "6" -> 6 [] c = "7" -> 7 [] c = "8" -> 8 [] c = "9" -> 9

\* int(s) of a string of decimal digits.
RECURSIVE DecimalValue(_)
DecimalValue(s) ==
    IF s = <<>> THEN 0
    ELSE 10 * DecimalValue(SubSeq(s, 1, Len(s) - 1)) + DigitVal(s[Len(s)])

\* int(s): ValueError on the empty string and on a non-digit character.
IntOf(s) ==
    IF s # <<>> /\ \A i \in DOMAIN s : s[i] \in Digits
    THEN [ok |-> TRUE, val |-> DecimalValue(s)]
    ELSE [ok |-> FALSE, val |-> 0]

\* Values of current_todo.
NoTodo == [kind |-> "none", items |-> <<>>]
IntTodo(n) == [kind |-> "int", items |-> <<n>>]
ListTodo(items) == [kind |-> "list", items |-> items]

\* A range that leaves out its upper end: list(range(a, b)).
RangeListExclusive(a, b) == IF b > a THEN [i \in 1..(b - a) |-> a + i - 1] ELSE <<>>

\* list(range(a, b + 1))
RangeList(a, b) == IF b >= a THEN [i \in 1..(b - a + 1) |-> a + i - 1] ELSE <<>>

\* max(list) of a non-empty list
MaxOf(items) == CHOOSE m \in {items[i] : i \in DOMAIN items} :
                    \A i \in DOMAIN items : items[i] <= m

\* Lines 726-745: the selection parsed against a listing of n entries.
\* raised tells that it raised (a ValueError of int() or the range checks of
\* lines 731, 738, 743); todo is current_todo as last assigned.
ParseChoice(choice, n) ==
    IF \E i \in DOMAIN choice : choice[i] = "-"
    THEN LET interval == SplitOn(choice, "-")
             a == IntOf(interval[1])
             b == IntOf(interval[2])
         IN  IF ~a.ok \/ ~b.ok THEN [raised |-> TRUE, todo |-> NoTodo]
             ELSE LET todo == RangeList(a.val, b.val)
                  IN  [raised |-> Len(todo) > n, todo |-> ListTodo(todo)]
    ELSE IF \E i \in DOMAIN choice : choice[i] = ","
    THEN LET parts == SplitOn(choice, ",")
         IN  IF \E i \in DOMAIN parts : ~IntOf(parts[i]).ok
             THEN [raised |-> TRUE, todo |-> NoTodo]
             ELSE LET todo == [i \in DOMAIN parts |-> IntOf(parts[i]).val]
                  IN  [raised |-> MaxOf(todo) > n, todo |-> ListTodo(todo)]
    ELSE LET v == IntOf(choice)
         IN  IF ~v.ok THEN [raised |-> TRUE, todo |-> NoTodo]
             ELSE [raised |-> v.val > n, todo |-> IntTodo(v.val)]

\* root_dir[index - 1] as Python indexes a list: -1 is the last element,
\* an index outside -len..len-1 raises IndexError.
Lookup(dir, index) ==
    LET k == index - 1
        n == Len(dir)
    IN  IF 0 <= k /\ k < n THEN [raised |-> FALSE, entry |-> dir[k + 1]]
        ELSE IF k < 0 /\ -n <= k THEN [raised |-> FALSE, entry |-> dir[n + k + 1]]
        ELSE [raised |-> TRUE, entry |-> [dataname |-> 0, datatype |-> "", dataid |-> 0]]

\* What the two endpoints answer for one resource: the read-count call
\* reports failure, the preview call reports failure, or the preview markup
\* has a fileBox with pages, a fileBox without pages, or no fileBox.
Outcomes == {"readcount_failed", "preview_failed", "pages", "no_pages", "no_filebox"}

\* Values parse_resourse returns: a page -> URL dict, or None.
PageMap(pages) == [kind |-> "dict", pages |-> pages]
NoneValue == [kind |-> "None", pages |-> {}]

Call(name, id, ok) == [call |-> name, dataid |-> id, ok |-> ok]

\* A parse_resourse that logs a failed call and returns None.
ParseResourceNoRaise(resource, o) ==
    IF o = "readcount_failed"
    THEN [calls |-> <<Call("update_readcount", resource.dataid, FALSE)>>,
          raised |-> FALSE, value |-> NoneValue]
    ELSE IF o = "preview_failed"
    THEN [calls |-> <<Call("update_readcount", resource.dataid, TRUE),
                      Call("get_wps_preview", resource.dataid, FALSE)>>,
          raised |-> FALSE, value |-> NoneValue]
    ELSE [calls |-> <<Call("update_readcount", resource.dataid, TRUE),
                      Call("get_wps_preview", resource.dataid, TRUE),
                      Call("preview_url", resource.dataid, TRUE)>>,
          raised |-> FALSE,
          value |-> IF o = "pages" THEN PageMap({1, 2})
                    ELSE IF o = "no_pages" THEN PageMap({})
                    ELSE NoneValue]

\* A parse_resourse that asks for the preview whatever the read-count call
\* reported.
ParseResourcePreviewsAnyway(resource, o) ==
    IF o = "preview_failed"
    THEN [calls |-> <<Call("update_readcount", resource.dataid, TRUE),
                      Call("get_wps_preview", resource.dataid, FALSE)>>,
          raised |-> TRUE, value |-> NoneValue]
    ELSE [calls |-> <<Call("update_readcount", resource.dataid, o # "readcount_failed"),
                      Call("get_wps_preview", resource.dataid, TRUE),
                      Call("preview_url", resource.dataid, TRUE)>>,
          raised |-> FALSE,
          value |-> IF o = "no_pages" THEN PageMap({})
                    ELSE IF o = "no_filebox" THEN NoneValue
                    ELSE PageMap({1, 2})]

\* Lines 634-700: parse_resourse(resource) under the outcome o: the calls it
\* issues, whether it raises, and what it returns.
ParseResource(resource, o) ==
    IF o = "readcount_failed"
    THEN [calls |-> <<Call("update_readcount", resource.dataid, FALSE)>>,
          raised |-> TRUE, value |-> NoneValue]
    ELSE IF o = "preview_failed"
    THEN [calls |-> <<Call("update_readcount", resource.dataid, TRUE),
                      Call("get_wps_preview", resource.dataid, FALSE)>>,
          raised |-> TRUE, value |-> NoneValue]
    ELSE [calls |-> <<Call("update_readcount", resource.dataid, TRUE),
                      Call("get_wps_preview", resource.dataid, TRUE),
                      Call("preview_url", resource.dataid, TRUE)>>,
          raised |-> FALSE,
          value |-> IF o = "pages" THEN PageMap({1, 2})
                    ELSE IF o = "no_pages" THEN PageMap({})
                    ELSE NoneValue]

\* ret[name] = value
DictSet(d, name, value) ==
    [k \in DOMAIN d \cup {name} |-> IF k = name THEN value ELSE d[k]]

EmptyDict == [k \in {} |-> NoneValue]

\* Lines 782-784: what the except clause hands the caller.
NavError == [kind |-> "error", val |-> EmptyDict]
NavValue(d) == [kind |-> "value", val |-> d]

\* A check that never takes a list entry for a folder.
ListEntryIsFolderNever(entry) == FALSE

\* Line 771: the folder check of the list / range branch.
ListEntryIsFolder(entry) == entry.datatype = "afolder"

NavIdle ==
    /\ nav_pc = "idle"
    /\ scope = 0
    /\ root_dir = <<>>
    /\ last_listing = NoListing
    /\ user_choice = <<>>
    /\ current_todo = NoTodo
    /\ pos = 0
    /\ ret = EmptyDict
    /\ resolved = <<>>
    /\ res_calls = <<>>
    /\ nav_ret = [kind |-> "none", val |-> EmptyDict]

NavInit ==
    /\ nav_pc = "enter"
    /\ scope = 0
    /\ root_dir = <<>>
    /\ last_listing = NoListing
    /\ user_choice = <<>>
    /\ current_todo = NoTodo
    /\ pos = 0
    /\ ret = EmptyDict
    /\ resolved = <<>>
    /\ res_calls = <<>>
    /\ nav_ret = [kind |-> "none", val |-> EmptyDict]

\* Lines 603-605: _get_EncAndT(course) is called outside the try; its
\* FanyaCrawlerError reaches the caller.
GetResourceListEnter ==
    /\ nav_pc = "enter"
    /\ \E enc_ok \in BOOLEAN :
        /\ IF enc_ok
           THEN /\ nav_pc' = "fetch"
                /\ nav_ret' = nav_ret
           ELSE /\ nav_pc' = "raised"
                /\ nav_ret' = NavError
        /\ UNCHANGED <<scope, root_dir, last_listing, user_choice, current_todo, pos, ret,
                       resolved, res_calls>>
        /\ UNCHANGED not_nav

\* Lines 713-725 and 778-780: the listing of the current scope is fetched;
\* an empty one ends the call with an empty dict, another one is displayed.
\* (The selection of the round before is dead here and is cleared.)
FetchListing ==
    /\ nav_pc = "fetch"
    /\ \E resp \in ListingResponses :
        /\ root_dir' = GetFolderDetail(resp)
        /\ last_listing' = Listing(ListingRequest(scope), resp.ok)
        /\ IF Len(root_dir') > 0
           THEN /\ nav_pc' = "prompt"
                /\ nav_ret' = nav_ret
           ELSE /\ nav_pc' = "returned"
                /\ nav_ret' = NavValue(EmptyDict)
        /\ user_choice' = <<>>
        /\ current_todo' = NoTodo
        /\ UNCHANGED <<scope, pos, ret, resolved, res_calls>>
        /\ UNCHANGED not_nav

\* Lines 724-768: the operator's selection is read and parsed. A single
\* index is looked up here: a folder becomes the new scope and an unsupported
\* entry is passed over, both going round the loop again; a supported file
\* and a list are handed to the resolution.
ReadChoice ==
    /\ nav_pc = "prompt"
    /\ \E choice \in Choices :
        /\ LET parsed == ParseChoice(choice, Len(root_dir))
               todo == parsed.todo
               found == Lookup(root_dir, todo.items[1])
           IN  IF parsed.raised \/ (todo.kind = "int" /\ found.raised)
               THEN /\ nav_pc' = "raised"
                    /\ nav_ret' = NavError
                    /\ user_choice' = choice
                    /\ current_todo' = todo
                    /\ UNCHANGED <<scope, root_dir, pos, resolved>>
               ELSE IF todo.kind = "int" /\ found.entry.datatype = "afolder"
               THEN /\ nav_pc' = "fetch"
                    /\ scope' = found.entry.dataid
                    /\ user_choice' = choice
                    /\ current_todo' = todo
                    /\ UNCHANGED <<root_dir, pos, resolved, nav_ret>>
               ELSE IF todo.kind = "int" /\ found.entry.datatype \notin SUPPORTED_FILE_TYPES
               THEN /\ nav_pc' = "fetch"
                    /\ user_choice' = choice
                    /\ current_todo' = todo
                    /\ UNCHANGED <<scope, root_dir, pos, resolved, nav_ret>>
               ELSE IF todo.items = <<>>
               THEN /\ nav_pc' = "returned"
                    /\ nav_ret' = NavValue(ret)
                    /\ user_choice' = choice
                    /\ current_todo' = todo
                    /\ UNCHANGED <<scope, root_dir, pos, resolved>>
               ELSE /\ nav_pc' = "resolve"
                    /\ pos' = 1
                    /\ user_choice' = choice
                    /\ current_todo' = todo
                    /\ UNCHANGED <<scope, root_dir, resolved, nav_ret>>
        /\ UNCHANGED <<last_listing, ret, res_calls>>
        /\ UNCHANGED not_nav

\* Lines 765-777: the entry at position pos of the selection is resolved,
\* with the outcome o of parse_resourse's calls; a raise (an IndexError, the
\* folder check, parse_resourse) leaves through lines 782-784, and after the
\* last entry the call returns ret (lines 785-786).
ResolveNext ==
    /\ nav_pc = "resolve"
    /\ \E o \in Outcomes :
        /\ LET found == Lookup(root_dir, current_todo.items[pos])
               entry == found.entry
               last == pos = Len(current_todo.items)
               r == ParseResource(entry, o)
           IN  IF found.raised
               THEN /\ nav_pc' = "raised"
                    /\ nav_ret' = NavError
                    /\ UNCHANGED <<pos, ret, resolved, res_calls>>
               ELSE IF current_todo.kind = "list" /\ ListEntryIsFolder(entry)
               THEN /\ resolved' = Append(resolved, entry.dataid)
                    /\ nav_pc' = "raised"
                    /\ nav_ret' = NavError
                    /\ UNCHANGED <<pos, ret, res_calls>>
               ELSE IF entry.datatype \in SUPPORTED_FILE_TYPES /\ r.raised
               THEN /\ resolved' = Append(resolved, entry.dataid)
                    /\ res_calls' = res_calls \o r.calls
                    /\ nav_pc' = "raised"
                    /\ nav_ret' = NavError
                    /\ UNCHANGED <<pos, ret>>
               ELSE /\ resolved' = Append(resolved, entry.dataid)
                    /\ IF entry.datatype \in SUPPORTED_FILE_TYPES
                       THEN /\ res_calls' = res_calls \o r.calls
                            /\ ret' = DictSet(ret, entry.dataname, r.value)
                       ELSE UNCHANGED <<res_calls, ret>>
                    /\ nav_pc' = IF last THEN "returned" ELSE "resolve"
                    /\ nav_ret' = IF last THEN NavValue(ret') ELSE nav_ret
                    /\ pos' = IF last THEN pos ELSE pos + 1
        /\ UNCHANGED <<scope, root_dir, last_listing, user_choice, current_todo>>
        /\ UNCHANGED not_nav

\* =================================================================
\* DocumentExporter.exprot_pdf_from_url
\* =================================================================

\* The page keys of an image_urls dict, and the dicts the model draws from:
\* distinct keys in any insertion order. A URL is written by its page key.
PageKeys == 1..MaxImages
ImageUrlMaps ==
    {m \in SeqsUpTo(PageKeys, MaxImages) :
        \A i, j \in DOMAIN m : i # j => m[i] # m[j]}

\* Line 1186: the default of max_workers, and the pool sizes a caller passes.
DefaultMaxWorkers == 4
PoolSizes == {1, 2, DefaultMaxWorkers}

\* sorted() / list.sort() of distinct integers.
RECURSIVE SortAscending(_)
SortAscending(s) ==
    IF s = <<>> THEN <<>>
    ELSE LET m == CHOOSE x \in {s[i] : i \in DOMAIN s} : \A i \in DOMAIN s : x <= s[i]
         IN  <<m>> \o SortAscending(SelectSeq(s, LAMBDA x : x # m))

\* The URLs taken in the order the dict holds them.
SortedUrlsInsertionOrder(urls) == urls

\* Lines 1198-1199: the URLs ordered by page key.
SortedUrls(urls) == SortAscending(urls)

\* What download_image returns, and the error events of the exporter.
ImgPath == "path"
NoPath == "None"
LogEvent(event, idx) == [event |-> event, idx |-> idx]

\* A download_image that hands back the path of the file also when the
\* request failed.
DownloadImageKeepsPath(idx, fetched) ==
    IF fetched THEN [result |-> ImgPath, log |-> {}]
    ELSE [result |-> ImgPath, log |-> {LogEvent("download_failed", idx)}]

\* Lines 1204-1218: download_image((idx, url)); fetched tells whether the
\* request and the writing of page_<idx>.jpg went through.
DownloadImage(idx, fetched) ==
    IF fetched THEN [result |-> ImgPath, log |-> {}]
    ELSE [result |-> NoPath, log |-> {LogEvent("download_failed", idx)}]

\* Lines 1230-1231: image_paths sorted by the idx of the file name.
SortPaths(paths) == SortAscending(paths)

\* What lines 1237-1256 do with one image: it is added, Image.open (or the
\* reading of its size) raises before add_page, or pdf.image raises after it.
ProcessOutcomes == {"added", "open_raises", "image_raises"}

\* A page of the FPDF object: the idx of its image file, and whether the
\* image was placed on it.
PdfPage(idx, image) == [idx |-> idx, image |-> image]

NoOutput == [written |-> FALSE, pages |-> <<>>, saved_logged |-> FALSE]

PdfIdle ==
    /\ pdf_pc = "idle"
    /\ image_urls = <<>>
    /\ max_workers = DefaultMaxWorkers
    /\ sorted_urls = <<>>
    /\ task = <<>>
    /\ completed = <<>>
    /\ next_result = 1
    /\ image_paths = <<>>
    /\ next_path = 1
    /\ pdf_doc = <<>>
    /\ pdf_log = {}
    /\ pdf_out = NoOutput

PdfInit ==
    /\ pdf_pc = "start"
    /\ image_urls \in ImageUrlMaps
    /\ max_workers \in PoolSizes
    /\ sorted_urls = <<>>
    /\ task = <<>>
    /\ completed = <<>>
    /\ next_result = 1
    /\ image_paths = <<>>
    /\ next_path = 1
    /\ pdf_doc = <<>>
    /\ pdf_log = {}
    /\ pdf_out = NoOutput

\* Lines 1195-1224: the URLs are sorted and executor.map submits one
\* download_image per (idx, url) of enumerate(sorted_urls, start=1).
ExportPdfEnter ==
    /\ pdf_pc = "start"
    /\ pdf_pc' = "pool"
    /\ sorted_urls' = SortedUrls(image_urls)
    /\ task' = [i \in DOMAIN image_urls |-> "queued"]
    /\ UNCHANGED <<image_urls, max_workers, completed, next_result, image_paths,
                   next_path, pdf_doc, pdf_log, pdf_out>>
    /\ UNCHANGED not_pdf

\* A free worker of the pool takes the oldest submitted task from the queue.
StartDownload ==
    /\ pdf_pc = "pool"
    /\ Cardinality({i \in DOMAIN task : task[i] = "running"}) < max_workers
    /\ \E idx \in DOMAIN task :
        /\ task[idx] = "queued"
        /\ \A i \in 1..(idx - 1) : task[i] # "queued"
        /\ task' = [task EXCEPT ![idx] = "running"]
    /\ UNCHANGED <<pdf_pc, image_urls, max_workers, sorted_urls, completed, next_result,
                   image_paths, next_path, pdf_doc, pdf_log, pdf_out>>
    /\ UNCHANGED not_pdf

\* Lines 1204-1218: a running download_image returns, in any order among
\* the running ones.
FinishDownload ==
    /\ pdf_pc = "pool"
    /\ \E idx \in DOMAIN task, fetched \in BOOLEAN :
        /\ task[idx] = "running"
        /\ LET r == DownloadImage(idx, fetched)
           IN  /\ task' = [task EXCEPT ![idx] = r.result]
               /\ pdf_log' = pdf_log \cup r.log
        /\ completed' = Append(completed, [idx |-> idx, fetched |-> fetched])
    /\ UNCHANGED <<pdf_pc, image_urls, max_workers, sorted_urls, next_result, image_paths,
                   next_path, pdf_doc, pdf_out>>
    /\ UNCHANGED not_pdf

\* Lines 1225-1227: the iterator of executor.map yields the results in the
\* order of submission, each once its download has returned.
CollectResult ==
    /\ pdf_pc = "pool"
    /\ next_result \in DOMAIN task
    /\ task[next_result] \in {ImgPath, NoPath}
    /\ image_paths' = IF task[next_result] = ImgPath
                      THEN Append(image_paths, next_result)
                      ELSE image_paths
    /\ next_result' = next_result + 1
    /\ UNCHANGED <<pdf_pc, image_urls, max_workers, sorted_urls, task, completed, next_path,
                   pdf_doc, pdf_log, pdf_out>>
    /\ UNCHANGED not_pdf

\* A pool that is left as soon as the first result has been taken.
PoolDrainedAfterFirst(next, tasks) == next > 1

\* Lines 1223-1227: the loop over the results of executor.map, and with it
\* the with block of the pool, ends once every result has been taken.
PoolDrained(next, tasks) == next > Len(tasks)

\* Lines 1229-1234: after the last result the paths are sorted and the
\* FPDF object is created.
SortImagePaths ==
    /\ pdf_pc = "pool"
    /\ PoolDrained(next_result, task)
    /\ pdf_pc' = "assemble"
    /\ image_paths' = SortPaths(image_paths)
    /\ UNCHANGED <<image_urls, max_workers, sorted_urls, task, completed, next_result,
                   next_path, pdf_doc, pdf_log, pdf_out>>
    /\ UNCHANGED not_pdf

\* Lines 1236-1256: one iteration of the loop over image_paths.
AddImagePage ==
    /\ pdf_pc = "assemble"
    /\ next_path \in DOMAIN image_paths
    /\ \E o \in ProcessOutcomes :
        LET idx == image_paths[next_path]
        IN  /\ pdf_doc' = IF o = "added" THEN Append(pdf_doc, PdfPage(idx, TRUE))
                          ELSE IF o = "image_raises"
                          THEN Append(pdf_doc, PdfPage(idx, FALSE))
                          ELSE pdf_doc
            /\ pdf_log' = IF o = "added" THEN pdf_log
                          ELSE pdf_log \cup {LogEvent("image_failed", idx)}
    /\ next_path' = next_path + 1
    /\ UNCHANGED <<pdf_pc, image_urls, max_workers, sorted_urls, task, completed,
                   next_result, image_paths, pdf_out>>
    /\ UNCHANGED not_pdf

\* Lines 1258-1261: the document is written and the success is logged.
OutputPdf ==
    /\ pdf_pc = "assemble"
    /\ next_path > Len(image_paths)
    /\ pdf_pc' = "done"
    /\ pdf_out' = [written |-> TRUE, pages |-> pdf_doc, saved_logged |-> TRUE]
    /\ UNCHANGED <<image_urls, max_workers, sorted_urls, task, completed, next_result,
                   image_paths, next_path, pdf_doc, pdf_log>>
    /\ UNCHANGED not_pdf

\* =================================================================
\* main (operation 0), get_assignment_questions as main sees it,
\* solve_assignment_questions_with_ai
\* =================================================================

\* What AIQuestionSolver.solve_question returns (lines 144-166): the answer
\* of the model, or the text of line 166 when the request raised.
AiAnswers == {"ai answer", "ai failure text"}

\* The lists get_assignment_questions returns to main (lines 942-979): the
\* Questions of the page (true-false ones here), [] also when the request
\* failed.
QuestionLists ==
    {[j \in 1..k |-> Question(ANSWER_TYPES["true_false"], <<"a">>,
                              StrAnswer(RightText), NoOptions)] :
        k \in 0..MaxQuestions}

\* The calls main's two loops issue.
FetchEvent(i) == [call |-> "get_assignment_questions", assignment |-> i, question |-> 0]
SolveEvent(i, j) == [call |-> "solve_question", assignment |-> i, question |-> j]

\* A pipeline that has each assignment solved right after its questions
\* were fetched.
NextStepInterleaved(pc, i, n, ai_on) ==
    IF pc = "fetch"
    THEN IF ai_on THEN [pc |-> "solve", i |-> i]
         ELSE IF i < n THEN [pc |-> "fetch", i |-> i + 1]
         ELSE [pc |-> "export", i |-> 1]
    ELSE IF i < n THEN [pc |-> "fetch", i |-> i + 1]
         ELSE [pc |-> "export", i |-> 1]

\* Lines 1420-1432: where main goes after the i-th of n iterations of the
\* loop pc: the fetch loop runs to its end, then (line 1427) the solve loop
\* when AI is on, then the export.
NextStep(pc, i, n, ai_on) ==
    IF i < n THEN [pc |-> pc, i |-> i + 1]
    ELSE IF pc = "fetch" /\ ai_on THEN [pc |-> "solve", i |-> 1]
    ELSE [pc |-> "export", i |-> 1]

\* A loop that stores the answer of the solver as the correct answer too.
SolveQuestionsOverwritesCorrect(questions, answers) ==
    [j \in DOMAIN questions |->
        [questions[j] EXCEPT !.ai_generated_answer = answers[j],
                             !.ai_answer_confirmed = TRUE,
                             !.correct_answer = StrAnswer(answers[j])]]

\* Lines 989-998: the questions of one assignment after the loop of
\* solve_assignment_questions_with_ai, answers[j] being what solve_question
\* returned for the j-th.
SolveQuestions(questions, answers) ==
    [j \in DOMAIN questions |->
        [questions[j] EXCEPT !.ai_generated_answer = answers[j],
                             !.ai_answer_confirmed = TRUE]]

MainIdle ==
    /\ m_pc = "idle"
    /\ ai_enabled = FALSE
    /\ ai_solver = FALSE
    /\ m_assignments = <<>>
    /\ m_i = 1
    /\ m_events = <<>>
    /\ m_exported = <<>>

\* Lines 1336-1362: the solver is created only when AI is enabled (and an
\* API key is set).
MainInit ==
    /\ m_pc = "list"
    /\ ai_enabled \in BOOLEAN
    /\ ai_solver \in BOOLEAN
    /\ ai_solver => ai_enabled
    /\ m_assignments = <<>>
    /\ m_i = 1
    /\ m_events = <<>>
    /\ m_exported = <<>>

\* Lines 1413-1416: get_assignments; each Assignment starts with the empty
\* questions of its dataclass (line 69). No assignment ends main (line 1416),
\* an error of get_assignments leaves through line 1471.
MainGetAssignments ==
    /\ m_pc = "list"
    /\ \E ok \in BOOLEAN, n \in 0..MaxAssignments :
        /\ ~ok => n = 0
        /\ m_assignments' = [i \in 1..n |-> <<>>]
        /\ m_pc' = IF ~ok THEN "raised" ELSE IF n = 0 THEN "done" ELSE "fetch"
    /\ UNCHANGED <<ai_enabled, ai_solver, m_i, m_events, m_exported>>
    /\ UNCHANGED not_main

\* Lines 1420-1424: one iteration of the fetch loop.
MainFetchQuestions ==
    /\ m_pc = "fetch"
    /\ \E questions \in QuestionLists :
        m_assignments' = [m_assignments EXCEPT ![m_i] = questions]
    /\ m_events' = Append(m_events, FetchEvent(m_i))
    /\ LET next == NextStep("fetch", m_i, Len(m_assignments), ai_enabled /\ ai_solver)
       IN  /\ m_pc' = next.pc
           /\ m_i' = next.i
    /\ UNCHANGED <<ai_enabled, ai_solver, m_exported>>
    /\ UNCHANGED not_main

\* Lines 1429-1432 and 981-1001: one iteration of the solve loop, the whole
\* of solve_assignment_questions_with_ai(assignment).
MainSolveAssignment ==
    /\ m_pc = "solve"
    /\ LET questions == m_assignments[m_i]
       IN  /\ \E answers \in [DOMAIN questions -> AiAnswers] :
                m_assignments' = [m_assignments EXCEPT
                                    ![m_i] = SolveQuestions(questions, answers)]
           /\ m_events' = m_events \o [j \in DOMAIN questions |-> SolveEvent(m_i, j)]
    /\ LET next == NextStep("solve", m_i, Len(m_assignments), ai_enabled /\ ai_solver)
       IN  /\ m_pc' = next.pc
           /\ m_i' = next.i
    /\ UNCHANGED <<ai_enabled, ai_solver, m_exported>>
    /\ UNCHANGED not_main

\* Lines 1434-1457: the assignments are handed to the exporters.
MainExport ==
    /\ m_pc = "export"
    /\ m_pc' = "done"
    /\ m_exported' = m_assignments
    /\ UNCHANGED <<ai_enabled, ai_solver, m_assignments, m_i, m_events>>
    /\ UNCHANGED not_main

SolveIdle ==
    /\ sv_pc = "idle"
    /\ sv_solver = FALSE
    /\ sv_questions = <<>>
    /\ sv_ret = NoResult

\* A crawler with or without a solver, before its questions are extracted.
SolveInit ==
    /\ sv_pc = "ready"
    /\ sv_solver \in BOOLEAN
    /\ sv_questions = <<>>
    /\ sv_ret = NoResult

\* Lines 981-1001: solve_assignment_questions_with_ai(assignment), the
\* questions of the assignment being the ones _parse_questions extracted.
SolveAssignmentQuestionsWithAi ==
    /\ sv_pc = "ready"
    /\ q_pc = "done"
    /\ sv_pc' = "done"
    /\ LET questions == q_ret.val
       IN  IF ~sv_solver
           THEN /\ sv_questions' = questions
                /\ sv_ret' = [kind |-> "value", val |-> questions]
           ELSE \E answers \in [DOMAIN questions -> AiAnswers] :
                /\ sv_questions' = SolveQuestions(questions, answers)
                /\ sv_ret' = [kind |-> "value", val |-> sv_questions']
    /\ UNCHANGED <<sv_solver, q_vars>>
    /\ UNCHANGED not_solve

\* =================================================================
\* Specifications
\* =================================================================

GaIdle ==
    /\ ga_pc = "idle"
    /\ page_num = 1
    /\ total_page = PyInt(1)
    /\ assignments = <<>>
    /\ requested = <<>>
    /\ last_ok = TRUE
    /\ last_li = <<>>
    /\ page1_script = "unread"
    /\ ga_ret = NoResult

InitPag == GaInit /\ NtIdle /\ QIdle /\ NavIdle /\ PdfIdle /\ MainIdle /\ NaIdle /\ SolveIdle
NextPag ==
    \/ GetAssignmentsEnter
    \/ GetAssignmentsPage
SpecPag == InitPag /\ [][NextPag]_vars

InitTitle == NtInit /\ GaIdle /\ QIdle /\ NavIdle /\ PdfIdle /\ MainIdle /\ NaIdle /\ SolveIdle
NextTitle ==
    \/ NormalizeOnce
    \/ NormalizeAgain
SpecTitle == InitTitle /\ [][NextTitle]_vars

InitQ == QInit /\ GaIdle /\ NtIdle /\ NavIdle /\ PdfIdle /\ MainIdle /\ NaIdle /\ SolveIdle
NextQ == ParseQuestionsCall
SpecQ == InitQ /\ [][NextQ]_vars

InitAns == NaInit /\ GaIdle /\ NtIdle /\ QIdle /\ NavIdle /\ PdfIdle /\ MainIdle /\ SolveIdle
NextAns == NormalizeAnswersCall
SpecAns == InitAns /\ [][NextAns]_vars

InitNav == NavInit /\ GaIdle /\ NtIdle /\ QIdle /\ PdfIdle /\ MainIdle /\ NaIdle /\ SolveIdle
NextNav ==
    \/ GetResourceListEnter
    \/ FetchListing
    \/ ReadChoice
    \/ ResolveNext
SpecNav == InitNav /\ [][NextNav]_vars

InitPdf == PdfInit /\ GaIdle /\ NtIdle /\ QIdle /\ NavIdle /\ MainIdle /\ NaIdle /\ SolveIdle
NextPdf ==
    \/ ExportPdfEnter
    \/ StartDownload
    \/ FinishDownload
    \/ CollectResult
    \/ SortImagePaths
    \/ AddImagePage
    \/ OutputPdf
SpecPdf == InitPdf /\ [][NextPdf]_vars

InitSolve == QInit /\ SolveInit /\ GaIdle /\ NtIdle /\ NavIdle /\ PdfIdle /\ MainIdle /\ NaIdle
NextSolve ==
    \/ ParseQuestionsCall
    \/ SolveAssignmentQuestionsWithAi
SpecSolve == InitSolve /\ [][NextSolve]_vars

InitMain == MainInit /\ GaIdle /\ NtIdle /\ QIdle /\ NavIdle /\ PdfIdle /\ NaIdle /\ SolveIdle
NextMain ==
    \/ MainGetAssignments
    \/ MainFetchQuestions
    \/ MainSolveAssignment
    \/ MainExport
SpecMain == InitMain /\ [][NextMain]_vars

\* =================================================================
\* Claims about get_assignments
\* =================================================================

\* The total page 1 declared, as the paginator holds it (1 when none was read).
DeclaredTotal == IF total_page.kind = "str" THEN total_page.val ELSE 1

\* C1: the paginator requests no page whose index exceeds
\* max(declared_total, 1), whatever the server answers.
C1_NoPageBeyondDeclaredTotal ==
    \A i \in DOMAIN requested : requested[i] <= Max(DeclaredTotal, 1)

\* C2: a page with zero list items ends the pagination at that page: the
\* call returns exactly the assignments collected from the earlier pages, and
\* no page is requested after it. (The step is one that parsed a page: the
\* request succeeded and the iteration reached li_tags without raising.)
C2_EmptyPageStops ==
    [][/\ (requested' # requested /\ last_ok' /\ ga_pc' # "raised" /\ last_li' = <<>>)
            => (ga_pc' = "returned" /\ ga_ret' = [kind |-> "value", val |-> assignments])
       /\ (ga_pc = "returned" => requested' = requested)]_vars

\* C2 witness: page 1 declared total 2 and had assignments, page 2 had no <li>.
C2_Witness ==
    /\ ga_pc = "returned"
    /\ requested = <<1, 2>>
    /\ total_page = PyStr(2)
    /\ last_li = <<>>
    /\ assignments # <<>>
    /\ ga_ret = [kind |-> "value", val |-> assignments]

\* C3: a failed fetch at any page ends get_assignments with a raised error,
\* and the caller receives no list, not even the assignments of earlier pages.
C3_FetchFailureRaises ==
    /\ (requested # <<>> /\ ~last_ok) => ga_pc = "raised"
    /\ ga_pc = "raised" => ga_ret = [kind |-> "error", val |-> <<>>]
    /\ ga_ret.kind = "value" => ga_pc = "returned"

\* C3 witness: page 1 delivered assignments and the fetch of page 2 failed.
C3_Witness ==
    /\ ga_pc = "raised"
    /\ requested = <<1, 2>>
    /\ ~last_ok
    /\ assignments # <<>>
    /\ ga_ret.kind = "error"

\* C21: when page 1 carries no declared total (its script does not match
\* the pattern, it has no script, or its first script has no inline text),
\* the paginator requests exactly one page and returns that page's
\* assignments without raising.
C21_NoDeclaredTotalMeansOnePage ==
    page1_script \in {"nomatch", "noscript", "nostring"} =>
        /\ ga_pc = "returned"
        /\ requested = <<1>>
        /\ ga_ret = [kind |-> "value", val |-> assignments]

\* The work ids of the list items that carry a recoverable one, in order.
RECURSIVE Recoverable(_)
Recoverable(li_tags) ==
    IF li_tags = <<>> THEN <<>>
    ELSE LET li == Head(li_tags)
         IN  (IF li.data /\ li.workId \in WorkIds THEN <<li.workId>> ELSE <<>>)
             \o Recoverable(Tail(li_tags))

\* C22: the pages are requested in order, each once; every page that is
\* parsed adds, after the assignments of the earlier pages, exactly one
\* Assignment per list item with a recoverable work id, in listing order, and
\* nothing for the other items; the call returns the sequence so collected.
C22_OneAssignmentPerItem ==
    [][/\ requested' # requested
            => /\ requested' = Append(requested, Len(requested) + 1)
               /\ assignments' = assignments
                    \o (IF ga_pc' = "raised" THEN <<>> ELSE Recoverable(last_li'))
       /\ requested' = requested => assignments' = assignments
       /\ ga_pc' = "returned" => ga_ret' = [kind |-> "value", val |-> assignments']]_vars

\* C22 witness: a page without a declared total held an item without a data
\* attribute, one without a workId and one of work w1: the call returned the
\* assignment of w1 alone.
C22_Witness ==
    /\ ga_pc = "returned"
    /\ requested = <<1>>
    /\ Len(last_li) = 2
    /\ \E i \in DOMAIN last_li : ~(last_li[i].data /\ last_li[i].workId \in WorkIds)
    /\ assignments = <<"w1">>
    /\ ga_ret = [kind |-> "value", val |-> <<"w1">>]

\* =================================================================
\* Claims about _normalize_title
\* =================================================================

\* C4: _normalize_title is idempotent: normalising a normalised title
\* changes nothing.
C4_NormalizeIdempotent == nt_pc = "twice" => nt_twice = nt_once

\* =================================================================
\* Claims about _parse_questions
\* =================================================================

\* The answer types _parse_single_question has a branch for.
ExtractedTypes == {1, 2, 3, 4, 6, 7}

\* A detail element that parses: it has a title and reading it does not raise.
Parses(d) == d.h3 /\ ~d.raises

\* The title a Question carries for each title text of the model.
ExpectedTitle(d) == IF d.title = <<" ", "a">> THEN <<"a">> ELSE <<"(">>

\* C5: _parse_questions never raises out of a malformed detail element: it
\* returns a sequence no longer than the block's detail elements, the failing
\* elements are skipped and the others yield their Questions in block order.
C5_MalformedDetailSkipped ==
    q_pc = "done" =>
        /\ q_ret.kind = "value"
        /\ Len(q_ret.val) <= Len(q_block.details)
        /\ (q_block.heading.h2 /\ ClassifyHeading(q_block.heading.names) \in ExtractedTypes)
            => LET good == SelectSeq(q_block.details, Parses)
               IN  /\ Len(q_ret.val) = Len(good)
                   /\ \A i \in DOMAIN good :
                        q_ret.val[i].question_title = ExpectedTitle(good[i])

\* C5 witness: a typed block whose first detail element raises and whose
\* second one parses; the result is the second one's Question alone.
C5_Witness ==
    /\ q_pc = "done"
    /\ q_block.heading.names = {"single_choice"}
    /\ Len(q_block.details) = 2
    /\ q_block.details[1].raises
    /\ Parses(q_block.details[2])
    /\ Len(q_ret.val) = 1

\* C6: a block without a heading, or whose heading contains no type name,
\* yields no Question, and no returned Question has answer_type 0.
C6_UntypedBlockDropped ==
    q_pc = "done" =>
        /\ (~q_block.heading.h2 \/ q_block.heading.names = {}) => q_ret.val = <<>>
        /\ \A i \in DOMAIN q_ret.val :
            /\ q_ret.val[i].answer_type # 0
            /\ \E n \in q_block.heading.names : q_ret.val[i].answer_type = ANSWER_TYPES[n]

\* C6 witness: a block with a heading that names no type and two well-formed
\* detail elements; the result is empty.
C6_Witness ==
    /\ q_pc = "done"
    /\ q_block.heading.h2
    /\ q_block.heading.names = {}
    /\ Len(q_block.details) = 2
    /\ \A i \in DOMAIN q_block.details : Parses(q_block.details[i])
    /\ q_ret.val = <<>>

\* C25: each of the eight types has an extractor: a block whose heading is
\* classified as one of them yields exactly one Question of that type for
\* every detail element that carries a title (and can be read), in order.
C25_EveryTypeExtracted ==
    (q_pc = "done" /\ q_block.heading.h2 /\ ClassifyHeading(q_block.heading.names) # 0)
        => LET titled == SelectSeq(q_block.details, Parses)
           IN  /\ Len(q_ret.val) = Len(titled)
               /\ \A i \in DOMAIN q_ret.val :
                    q_ret.val[i].answer_type = ClassifyHeading(q_block.heading.names)

\* The detail element at position k of the block yields no Question.
YieldsNothing(k) ==
    \/ ~Parses(q_block.details[k])
    \/ ClassifyHeading(q_block.heading.names) \notin ExtractedTypes

\* C16: whenever _parse_questions drops an item, a block without a heading or
\* with a heading of no known type, or a detail element that yields no
\* Question, it has logged a warning or an error about that item by the time
\* it returns.
C16_DroppedItemLogged ==
    q_pc = "done" =>
        /\ (~q_block.heading.h2 \/ q_block.heading.names = {})
            => \E e \in q_log : e.level \in {"warning", "error"} /\ e.detail = 0
        /\ (q_block.heading.h2 /\ q_block.heading.names # {})
            => \A k \in DOMAIN q_block.details :
                YieldsNothing(k)
                    => \E e \in q_log : e.level \in {"warning", "error"} /\ e.detail = k

\* C18: in a true-false, term-definition or short-answer block, a detail
\* element that has the respondent's answer but no published answer yields a
\* Question whose correct_answer is the respondent's answer text.
C18_FallsBackToRespondentAnswer ==
    (/\ q_pc = "done"
     /\ q_block.heading.h2
     /\ ClassifyHeading(q_block.heading.names)
            \in {ANSWER_TYPES["true_false"], ANSWER_TYPES["term_definition"],
                 ANSWER_TYPES["short_answer"]})
        => LET good == SelectSeq(q_block.details, Parses)
           IN  /\ Len(q_ret.val) = Len(good)
               /\ \A i \in DOMAIN good :
                    good[i].answer = "stu"
                        => q_ret.val[i].correct_answer = StrAnswer(StuText)

\* =================================================================
\* Claims about _normalize_answers
\* =================================================================

\* The concatenation of the entries of a list of strings.
RECURSIVE Flatten(_)
Flatten(list) == IF list = <<>> THEN <<>> ELSE Head(list) \o Flatten(Tail(list))

NotSpace(c) == ~IsSpace(c)

\* The positions of na_text that hold the first non-blank character of a line.
LineStarts ==
    {i \in DOMAIN na_text :
        /\ NotSpace(na_text[i])
        /\ \A j \in 1..(i - 1) :
            NotSpace(na_text[j]) => \E m \in j..(i - 1) : na_text[m] = "\n"}

\* C17: every entry of the normalised option sequence ends with exactly one
\* newline and is not empty after trimming; the entries are the non-blank
\* lines of the raw text, trimmed, in their original order.
C17_OptionsNormalized ==
    na_pc = "done" =>
        /\ \A i \in DOMAIN na_ret :
            LET e == na_ret[i]
                line == SubSeq(e, 1, Len(e) - 1)
            IN  /\ Len(e) >= 2
                /\ e[Len(e)] = "\n"
                /\ \A j \in DOMAIN line : line[j] # "\n"
                /\ NotSpace(line[1]) /\ NotSpace(line[Len(line)])
                /\ \E a, b \in DOMAIN na_text : SubSeq(na_text, a, b) = line
        /\ Len(na_ret) = Cardinality(LineStarts)
        /\ SelectSeq(Flatten(na_ret), NotSpace) = SelectSeq(na_text, NotSpace)

\* C17 witness: of the four lines of "a", newline, space, newline the two
\* blank ones are gone and the text "a" ends with its newline.
C17_Witness ==
    /\ na_pc = "done"
    /\ na_text = <<"a", "\n", " ", "\n">>
    /\ na_ret = <<<<"a", "\n">>>>

\* =================================================================
\* Claims about get_resource_list
\* =================================================================

\* A string of decimal digits.
IsNumber(s) == s # <<>> /\ \A i \in DOMAIN s : s[i] \in Digits

\* The selection holds an index that names no entry of the listing, or is a
\* range a-b with a > b (the only selection that parses to an empty list).
SelectionOutOfRange ==
    /\ current_todo.kind # "none"
    /\ \/ \E k \in DOMAIN current_todo.items :
            current_todo.items[k] \notin 1..Len(root_dir)
       \/ current_todo.items = <<>>

\* The indices of the selection that name a folder of the listing.
FolderPositions ==
    {k \in DOMAIN current_todo.items :
        /\ current_todo.items[k] \in 1..Len(root_dir)
        /\ root_dir[current_todo.items[k]].datatype = "afolder"}

\* C7: a single index n parses to n, a range a-b to every index from a to b,
\* a comma-separated list to the listed indices, and each index of the
\* listing resolves to the entry at that 1-based position.
C7_SelectionGrammar ==
    /\ IsNumber(user_choice) => current_todo = IntTodo(DecimalValue(user_choice))
    /\ \A k \in DOMAIN user_choice :
        LET left == SubSeq(user_choice, 1, k - 1)
            right == SubSeq(user_choice, k + 1, Len(user_choice))
            a == DecimalValue(left)
            b == DecimalValue(right)
        IN  (IsNumber(left) /\ IsNumber(right)) =>
                /\ user_choice[k] = "-" =>
                    /\ current_todo.kind = "list"
                    /\ Len(current_todo.items) = (IF b >= a THEN b - a + 1 ELSE 0)
                    /\ \A i \in DOMAIN current_todo.items :
                            current_todo.items[i] = a + i - 1
                /\ user_choice[k] = "," => current_todo = ListTodo(<<a, b>>)
    /\ user_choice = <<"1", ",", "3", ",", "5">> => current_todo = ListTodo(<<1, 3, 5>>)
    /\ \A k \in DOMAIN resolved :
        current_todo.items[k] \in 1..Len(root_dir)
            => resolved[k] = root_dir[current_todo.items[k]].dataid
    /\ (nav_pc = "returned" /\ current_todo.kind # "none")
            => Len(resolved) = Len(current_todo.items)

\* C7 witness: "1-3" on a listing of three files resolved entries 1, 2, 3.
C7_Witness ==
    /\ nav_pc = "returned"
    /\ user_choice = <<"1", "-", "3">>
    /\ current_todo = ListTodo(<<1, 2, 3>>)
    /\ resolved = <<1, 2, 3>>
    /\ DOMAIN nav_ret.val = {1, 2, 3}

\* C8: a list or range selection that holds the index of a folder never
\* returns a map and never leaves the resolution for another listing: the
\* resolution stops with an error at the folder at the latest.
C8_FolderInListRejected ==
    (current_todo.kind = "list" /\ FolderPositions # {}) =>
        /\ nav_pc \in {"resolve", "raised"}
        /\ nav_ret.kind # "value"
        /\ \A k \in FolderPositions : nav_pc = "resolve" => pos <= k
        /\ \A k \in FolderPositions : Len(resolved) <= k

\* C8 witness: "1,2" where entry 1 is a file that was resolved and entry 2 is
\* a folder: the call raised.
C8_Witness ==
    /\ nav_pc = "raised"
    /\ current_todo = ListTodo(<<1, 2>>)
    /\ Len(root_dir) >= 2
    /\ root_dir[1].datatype = "pdf"
    /\ root_dir[2].datatype = "afolder"
    /\ resolved = <<1, 2>>
    /\ DOMAIN ret = {1}
    /\ nav_ret = NavError

\* C9: a selection with an index outside 1..n, or a range a-b with a > b, is
\* never taken for a valid one: the call does not return a result and no
\* such index is resolved to an entry of the listing.
C9_OutOfRangeNeverCoerced ==
    SelectionOutOfRange =>
        /\ nav_pc # "returned"
        /\ nav_ret.kind # "value"
        /\ \A k \in DOMAIN resolved : current_todo.items[k] \in 1..Len(root_dir)

\* C10: a failed read-count or preview call is the last call of the
\* selection: the call raises and returns no map, whatever was resolved.
C10_FailedCallAborts ==
    \A k \in DOMAIN res_calls :
        ~res_calls[k].ok =>
            /\ k = Len(res_calls)
            /\ nav_pc = "raised"
            /\ nav_ret = NavError

\* C10 witness: of a two-file selection the first file was resolved and the
\* preview call of the second one failed.
C10_Witness ==
    /\ nav_pc = "raised"
    /\ current_todo.kind = "list"
    /\ Len(current_todo.items) = 2
    /\ Len(resolved) = 2
    /\ DOMAIN ret # {}
    /\ Len(res_calls) = 5
    /\ res_calls[5] = Call("get_wps_preview", resolved[2], FALSE)
    /\ nav_ret = NavError

\* C15: a network or HTTP failure while the resource listing is fetched
\* reaches the caller of get_resource_list as an error, never as a normal
\* return of an empty listing or an empty map.
C15_TransportErrorPropagates ==
    (last_listing.made /\ ~last_listing.ok) =>
        /\ nav_pc = "raised"
        /\ nav_ret = NavError

\* C19: a preview call for a resource comes right after a read-count call
\* for the same resource that reported success, and a failed read-count
\* call is followed by no call at all.
C19_PreviewAfterReadCount ==
    \A k \in DOMAIN res_calls :
        /\ res_calls[k].call = "get_wps_preview" =>
            /\ k > 1
            /\ res_calls[k - 1] = Call("update_readcount", res_calls[k].dataid, TRUE)
        /\ (res_calls[k].call = "update_readcount" /\ ~res_calls[k].ok) =>
            k = Len(res_calls)

\* C19 witness: of the selection "1,2" the first file went through its
\* read-count and preview calls, and the read-count call of the second one
\* failed: no preview call was made for it.
C19_Witness ==
    /\ nav_pc = "raised"
    /\ current_todo = ListTodo(<<1, 2>>)
    /\ resolved = <<1, 2>>
    /\ res_calls = <<Call("update_readcount", 1, TRUE), Call("get_wps_preview", 1, TRUE),
                     Call("preview_url", 1, TRUE), Call("update_readcount", 2, FALSE)>>

\* C26: every value of the map get_resource_list returns is a page -> URL
\* mapping, possibly an empty one, never an absent value, also when the
\* preview markup has no page container.
C26_EveryValueIsPageMap ==
    nav_pc = "returned" =>
        /\ nav_ret.kind = "value"
        /\ \A name \in DOMAIN nav_ret.val : nav_ret.val[name].kind = "dict"

\* C20: a single index whose entry is a folder issues no read-count or
\* preview call and makes that folder's id the scope of the next listing
\* request; the scope changes in no other way, every listing request is made
\* for the scope, and the listing the operator is prompted with is the one
\* fetched for it.
C20_FolderDescent ==
    [][/\ (/\ nav_pc = "prompt"
           /\ IsNumber(user_choice')
           /\ DecimalValue(user_choice') \in 1..Len(root_dir)
           /\ root_dir[DecimalValue(user_choice')].datatype = "afolder")
            => /\ nav_pc' = "fetch"
               /\ scope' = root_dir[DecimalValue(user_choice')].dataid
               /\ res_calls' = res_calls
               /\ ret' = ret
               /\ nav_ret' = nav_ret
       /\ scope' # scope
            => /\ nav_pc = "prompt"
               /\ current_todo'.kind = "int"
               /\ \E k \in DOMAIN root_dir :
                    /\ root_dir[k].datatype = "afolder"
                    /\ scope' = root_dir[k].dataid
       /\ nav_pc = "fetch"
            => /\ last_listing'.made
               /\ last_listing'.dataId = scope
       /\ nav_pc' = "prompt"
            => /\ last_listing' = Listing(scope', TRUE)
               /\ nav_pc = "fetch"
               /\ Len(root_dir') > 0]_vars

\* C20 witness: the operator chose the folder with id 2 and is prompted
\* with the listing that was requested for it; no resource call was made.
C20_Witness ==
    /\ nav_pc = "prompt"
    /\ scope = 2
    /\ last_listing = Listing(2, TRUE)
    /\ Len(root_dir) > 0
    /\ res_calls = <<>>

\* The entry an index of the selection names, for an index of the listing.
Names(index, type) ==
    /\ index \in 1..Len(root_dir)
    /\ root_dir[index].datatype = type

\* C27: a single index whose entry is a zip file (neither a folder nor a
\* supported type) issues no read-count or preview call and returns nothing:
\* the scope is kept, the next step requests the listing of that same scope
\* and, the listing received, the operator is prompted again; this holds at
\* every such selection. Inside a list or range the zip entry is passed over
\* without a call, an entry of ret or a raise, and a pdf entry of the same
\* selection is still resolved.
C27_UnsupportedSelection ==
    [][/\ (/\ nav_pc = "prompt"
           /\ IsNumber(user_choice')
           /\ Names(DecimalValue(user_choice'), "zip"))
            => /\ nav_pc' = "fetch"
               /\ scope' = scope
               /\ res_calls' = res_calls
               /\ ret' = ret
               /\ nav_ret' = nav_ret
       /\ (/\ nav_pc = "fetch"
           /\ current_todo.kind = "int"
           /\ Names(current_todo.items[1], "zip"))
            => /\ last_listing'.made
               /\ last_listing'.dataId = scope
               /\ scope' = scope
               /\ res_calls' = res_calls
               /\ ret' = ret
               /\ Len(root_dir') > 0 => nav_pc' = "prompt"
       /\ (/\ nav_pc = "resolve"
           /\ current_todo.kind = "list"
           /\ Names(current_todo.items[pos], "zip"))
            => /\ res_calls' = res_calls
               /\ ret' = ret
               /\ IF pos < Len(current_todo.items)
                  THEN nav_pc' = "resolve" /\ pos' = pos + 1
                  ELSE nav_pc' = "returned" /\ nav_ret' = NavValue(ret)
       /\ (/\ nav_pc = "resolve"
           /\ current_todo.kind = "list"
           /\ Names(current_todo.items[pos], "pdf"))
            => /\ Len(res_calls') > Len(res_calls)
               /\ res_calls'[Len(res_calls) + 1] \in
                    {Call("update_readcount", root_dir[current_todo.items[pos]].dataid, ok) :
                        ok \in BOOLEAN}
               /\ nav_pc' # "raised"
                    => root_dir[current_todo.items[pos]].dataname \in DOMAIN ret']_vars

\* C27 witness: in the folder with id 2 the operator chose a zip file: no
\* call was made and the listing of folder 2 is about to be requested again.
C27_Witness ==
    /\ nav_pc = "fetch"
    /\ scope = 2
    /\ last_listing = Listing(2, TRUE)
    /\ current_todo.kind = "int"
    /\ Names(current_todo.items[1], "zip")
    /\ res_calls = <<>>

\* =================================================================
\* Claims about exprot_pdf_from_url
\* =================================================================

\* The page key of image_urls whose image a page of the document was made for.
SourcePage(p) == sorted_urls[p.idx]

\* The idx of the downloads that have returned with and without a file.
Fetched == {completed[k].idx : k \in {j \in DOMAIN completed : completed[j].fetched}}
NotFetched == {completed[k].idx : k \in {j \in DOMAIN completed : ~completed[j].fetched}}

\* C11: whatever the order the dict holds its pages in and whatever order the
\* downloads complete in, the pages of the document are in strictly ascending
\* order of their source page index.
C11_PagesAscending ==
    /\ \A i, j \in DOMAIN pdf_doc :
        i < j => SourcePage(pdf_doc[i]) < SourcePage(pdf_doc[j])
    /\ \A i, j \in DOMAIN pdf_out.pages :
        i < j => SourcePage(pdf_out.pages[i]) < SourcePage(pdf_out.pages[j])

\* C11 witness: the dict holds page 3 before page 1, the download of the
\* second URL returned before that of the first, and the written document
\* shows page 1 and then page 3.
C11_Witness ==
    /\ pdf_pc = "done"
    /\ image_urls = <<3, 1>>
    /\ completed = <<[idx |-> 2, fetched |-> TRUE], [idx |-> 1, fetched |-> TRUE]>>
    /\ pdf_out.written
    /\ Len(pdf_out.pages) = 2
    /\ SourcePage(pdf_out.pages[1]) = 1
    /\ SourcePage(pdf_out.pages[2]) = 3

\* C12: when no download of an assembly succeeds (every one fails, or the
\* map is empty) the assembler writes no output document and reports no
\* success.
C12_ZeroPagesIsFailure ==
    (pdf_pc = "done" /\ Fetched = {}) =>
        /\ ~pdf_out.written
        /\ ~pdf_out.saved_logged

AllSettled(tasks) == \A i \in DOMAIN tasks : tasks[i] \in {ImgPath, NoPath}

\* C23: the output file is written only when every download has settled,
\* every result has been taken and the loop over the retrieved images has
\* ended, with the document as it then is; it is written once (nothing is
\* written or appended after it), and an export that has not reached its end
\* has written no file.
C23_WrittenOnceAfterAllPages ==
    [][/\ pdf_out'.written
            => /\ AllSettled(task')
               /\ Len(task') = Len(sorted_urls')
               /\ next_result' > Len(task')
               /\ next_path' > Len(image_paths')
               /\ pdf_out'.pages = pdf_doc'
               /\ pdf_pc' = "done"
       /\ pdf_out.written => (pdf_out' = pdf_out /\ pdf_doc' = pdf_doc)
       /\ pdf_pc' # "done" => pdf_out' = NoOutput]_vars

\* C23 witness: three downloads ran on a pool of two workers, the second
\* finishing first; all three settled and their pages were appended before
\* the file was written.
C23_Witness ==
    /\ pdf_pc = "done"
    /\ max_workers = 2
    /\ Len(task) = 3
    /\ AllSettled(task)
    /\ Len(completed) = 3
    /\ completed[1].idx = 2
    /\ Len(pdf_doc) = 3
    /\ pdf_out.written
    /\ pdf_out.pages = pdf_doc

\* =================================================================
\* Claims about main and solve_assignment_questions_with_ai
\* =================================================================

\* A Question with its two AI fields put back to their defaults.
WithoutAi(q) ==
    [q EXCEPT !.ai_generated_answer = "None", !.ai_answer_confirmed = FALSE]

\* C24: every extracted Question has ai_generated_answer unset and
\* ai_answer_confirmed false; solve_assignment_questions_with_ai without a
\* solver leaves the extracted Questions as they are and returns them; with
\* a solver it keeps their number and order and changes nothing of a
\* Question but those two fields.
C24_OnlyAiFieldsChange ==
    /\ q_pc = "done"
        => \A j \in DOMAIN q_ret.val :
                /\ q_ret.val[j].ai_generated_answer = "None"
                /\ q_ret.val[j].ai_answer_confirmed = FALSE
    /\ sv_pc = "done"
        => /\ sv_ret = [kind |-> "value", val |-> sv_questions]
           /\ DOMAIN sv_questions = DOMAIN q_ret.val
           /\ \A j \in DOMAIN sv_questions :
                WithoutAi(sv_questions[j]) = q_ret.val[j]
           /\ ~sv_solver => sv_questions = q_ret.val

\* C24 witness: two Questions with a published answer were extracted and
\* solved; they carry the answers of the solver, confirmed, and their
\* published answer.
C24_Witness ==
    /\ sv_pc = "done"
    /\ sv_solver
    /\ Len(q_ret.val) = 2
    /\ \A j \in 1..2 :
        /\ sv_questions[j].ai_generated_answer \in AiAnswers
        /\ sv_questions[j].ai_answer_confirmed
        /\ sv_questions[j].correct_answer = StrAnswer(RightText)

IsSolve(e) == e.call = "solve_question"
IsFetch(e) == e.call = "get_assignment_questions"

\* C14: in the assignment mode no solve call happens before the question
\* fetch of the last assignment has returned, no fetch happens after the
\* first solve call, and no Question is passed to solve more than once.
C14_SolveAfterExtractionOnce ==
    /\ \A k \in DOMAIN m_events :
        IsSolve(m_events[k]) =>
            /\ Len(SelectSeq(SubSeq(m_events, 1, k), IsFetch)) = Len(m_assignments)
            /\ \A l \in (k + 1)..Len(m_events) : ~IsFetch(m_events[l])
            /\ \A l \in DOMAIN m_events : l # k => m_events[l] # m_events[k]
            /\ m_events[k].assignment \in DOMAIN m_assignments
            /\ m_events[k].question \in DOMAIN m_assignments[m_events[k].assignment]
    /\ m_pc = "done" =>
        \A i \in DOMAIN m_assignments : \A j \in DOMAIN m_assignments[i] :
            m_assignments[i][j].ai_answer_confirmed
                <=> \E k \in DOMAIN m_events : m_events[k] = SolveEvent(i, j)

\* C14 witness: two assignments of one question each with AI on: both
\* fetches came first, then each question was solved.
C14_Witness ==
    /\ m_pc = "done"
    /\ m_events = <<FetchEvent(1), FetchEvent(2), SolveEvent(1, 1), SolveEvent(2, 1)>>
    /\ Len(m_exported) = 2
    /\ \A i \in 1..2 : m_exported[i][1].ai_answer_confirmed

=============================================================================
